---- MODULE Spec2Model ----
(***************************************************************************)
(* State-machine model of the drom.ru scraping pipeline                    *)
(* (AutoAS_old/autoas/pw_scraper.py, class DromScraper).                   *)
(*                                                                         *)
(* The pipeline is one asyncio program.  The orchestrator coroutine        *)
(* (scrape -> get_car_items -> get_model_car_items -> parse_model_page)    *)
(* runs sequentially; the only concurrency is inside asyncio.gather, where *)
(* the page tasks of one chunk interleave at their await points.           *)
(* A listing is identified by <<group index, url id, page, row>>.          *)
(***************************************************************************)
EXTENDS Integers, Sequences, FiniteSets, TLC

VARIABLES
    pc,                    \* position of the orchestrator coroutine
    save_checkpoints,      \* DromScraper.save_checkpoints
    models_items,          \* list returned by get_model_items
    gi,                    \* 1-based index of model_item in get_car_items' loop
    plan,                  \* urls get_model_car_items passes to parse_model_page
    si,                    \* number of finished parse_model_page calls of the group
    pages_number,          \* parse_model_page: result of _get_pages_number
    tasks,                 \* parse_model_page: the coroutines, one per page
    chunk_pos,             \* parse_model_page: offset i of the current chunk
    model_car_items_slim,  \* parse_model_page: accumulated result
    model_car_items,       \* get_model_car_items: accumulated result
    car_items,             \* get_car_items: cumulative result
    model_slots,           \* files model_checkpoints/<brand>_<model>.pkl
    global_slot,           \* file global_checkpoint/car_items.pkl
    csv_file,              \* file written by scrape through pandas
    open_pages,            \* pages created by context.new_page() and not closed
    failures,              \* number of failures injected so far
    abort_cause,           \* which exception left scrape, "" if none
    enum_calls,            \* history: urls _get_pages_number was called with, per group
    done_groups,           \* history: model_car_items of every group processed
    writes,                \* history: completed pickle.dump calls, in order
    fetched,               \* history: number of page tasks created in the run
    call,                  \* a pure function under test: its name and arguments
    ret                    \* the outcome of that call

vars == <<pc, save_checkpoints, models_items, gi, plan, si, pages_number, tasks,
          chunk_pos, model_car_items_slim, model_car_items, car_items,
          model_slots, global_slot, csv_file, open_pages, failures,
          abort_cause, enum_calls, done_groups, writes, fetched, call, ret>>

----------------------------------------------------------------------------
(* Bounds of the model *)

MaxYearSpan == 1      \* last_year - start_year is at most this
MaxPages == 3         \* largest page count the enumerator reports
MaxFetched == 3       \* page tasks created in one run
MaxRows == 2          \* most rows on one listing page
MaxFailures == 1      \* failures injected in one run
chunks_size == 2      \* self.chunks_size (50 in the source), scaled down

(* Program constants *)

PAGE_ITEMS == 20      \* items per page in the page count formula
SPLIT_PAGES == 100    \* get_model_car_items splits above this page count
FirstYear == 2000     \* earliest start_year drawn

BRAND_MODELS == {"toyota_camry", "lada_vesta"}
ADS_NUMBERS == {2000, 2001}
WholeGroup == 0       \* url id of the unsplit "model" url; a year otherwise

----------------------------------------------------------------------------
(* Helpers *)

Min(a, b) == IF a < b THEN a ELSE b
Max(a, b) == IF a > b THEN a ELSE b

RECURSIVE Flatten(_)
Flatten(ss) == IF ss = <<>> THEN <<>> ELSE Head(ss) \o Flatten(Tail(ss))

\* variant: the remainder term is left out
PagesNumberFloor(items_number) == items_number \div PAGE_ITEMS

\* items_number // 20 + (items_number % 20 > 0)
PagesNumber(items_number) ==
    (items_number \div PAGE_ITEMS) + (IF items_number % PAGE_ITEMS > 0 THEN 1 ELSE 0)

\* range(start_year, last_year + 1) as a list
YearRange(start_year, last_year) ==
    [k \in 1..Max(0, last_year - start_year + 1) |-> start_year + k - 1]

\* variant: the split test written with >=
PlanSplitAtThreshold(model_item) ==
    IF PagesNumber(model_item.ads_number) >= SPLIT_PAGES
    THEN YearRange(model_item.start_year, model_item.last_year)
    ELSE <<WholeGroup>>

\* get_model_car_items: the urls handed to parse_model_page, in call order
Plan(model_item) ==
    IF PagesNumber(model_item.ads_number) > SPLIT_PAGES
    THEN YearRange(model_item.start_year, model_item.last_year)
    ELSE <<WholeGroup>>

ModelItems ==
    [key : BRAND_MODELS,
     start_year : {FirstYear},
     last_year : FirstYear..(FirstYear + MaxYearSpan),
     ads_number : ADS_NUMBERS]

\* the lists get_model_items can return: every brand/model appears once
ModelItemLists ==
    {items \in UNION {[1..n -> ModelItems] : n \in 0..Cardinality(BRAND_MODELS)} :
        \A i, j \in 1..Len(items) : items[i].key = items[j].key => i = j}

\* A file: absent, opened with "wb" and not yet dumped (truncated), or dumped
NoFile == [state |-> "nofile", data |-> <<>>]
Truncated == [state |-> "truncated", data |-> <<>>]
Dumped(items) == [state |-> "dumped", data |-> items]

OldListing == <<0, 0, 0, 0>>

\* A page task of parse_model_page: its position, the page number in its
\* url, the rows of its page, the rows appended to parsed_cars_items, where
\* a failure struck, and its rank among the tasks of the call in the order
\* in which they returned
NewTask == [st |-> "created", page |-> 0, rows |-> 0, got |-> 0, caught |-> FALSE,
            failed_at |-> "", fail_row |-> 0, seq |-> 0]

\* the rank of the task that returns now
NextSeq == Cardinality({q \in 1..Len(tasks) : tasks[q].st = "returned"}) + 1

\* variant: range(1, pages_number)
PageRangeShort(n) == [k \in 1..(n - 1) |-> k]

\* list(range(1, pages_number + 1)), the page numbers put into the urls
PageRange(n) == [k \in 1..n |-> k]

\* variant: the slice tasks[i : i + chunks_size + 1]
ChunkOneMore(i) == (i + 1)..Min(i + chunks_size + 1, Len(tasks))

\* tasks[i : i + chunks_size] as the set of 1-based task indices
Chunk(i) == (i + 1)..Min(i + chunks_size, Len(tasks))

\* parsed_cars_items of page task p: the rows appended so far
TaskResult(p) == [r \in 1..tasks[p].got |-> <<gi, plan[si + 1], tasks[p].page, r>>]

\* variant: the lists of the tasks that logged a failure are dropped
ChunkResultCleanOnly(i) ==
    Flatten([k \in 1..(Min(i + chunks_size, Len(tasks)) - i) |->
               IF tasks[i + k].caught THEN <<>> ELSE TaskResult(i + k)])

\* the k-th task of the chunk at offset i in the order of returning
KthReturned(i, k) ==
    CHOOSE p \in Chunk(i) :
        Cardinality({q \in Chunk(i) : tasks[q].seq < tasks[p].seq}) = k - 1

\* variant: the results are taken as the tasks return (asyncio.as_completed)
ChunkResultAsCompleted(i) ==
    Flatten([k \in 1..(Min(i + chunks_size, Len(tasks)) - i) |->
               TaskResult(KthReturned(i, k))])

\* [d for ds in chunk_results for d in ds], results in task order
ChunkResult(i) ==
    Flatten([k \in 1..(Min(i + chunks_size, Len(tasks)) - i) |-> TaskResult(i + k)])

Resolved(t) == t.st \in {"returned", "raised"}
InFlight(t) == t.st \in {"started", "opened", "loaded"}

\* variant: the await returns when the first task of the chunk returned
GatherDoneFirst(i) == \E p \in Chunk(i) : tasks[p].st = "returned"

\* await asyncio.gather(*chunk) returns once every task of the chunk returned
GatherDone(i) == \A p \in Chunk(i) : tasks[p].st = "returned"

\* await asyncio.gather(*chunk) raises as soon as one task raised
GatherFailed(i) == \E p \in Chunk(i) : tasks[p].st = "raised"

CanFail == failures < MaxFailures

\* no pure function is under test
NoCall == [fn |-> "none"]

\* how a call ends: an exception leaves it, or it returns a value
Failed(error) == [ok |-> FALSE, value |-> error]
Returned(value) == [ok |-> TRUE, value |-> value]

----------------------------------------------------------------------------
Init ==
    /\ pc = "start"
    /\ save_checkpoints \in BOOLEAN
    /\ models_items = <<>>
    /\ gi = 0
    /\ plan = <<>>
    /\ si = 0
    /\ pages_number = 0
    /\ tasks = <<>>
    /\ chunk_pos = 0
    /\ model_car_items_slim = <<>>
    /\ model_car_items = <<>>
    /\ car_items = <<>>
    /\ model_slots = [k \in BRAND_MODELS |-> NoFile]
    /\ global_slot = Dumped(<<OldListing>>)
    /\ csv_file = NoFile
    /\ open_pages = 0
    /\ failures = 0
    /\ abort_cause = ""
    /\ enum_calls = <<>>
    /\ done_groups = <<>>
    /\ writes = <<>>
    /\ fetched = 0
    /\ call = NoCall
    /\ ret = NoCall

----------------------------------------------------------------------------
(* scrape: browser launch, context creation and group discovery *)

\* p.chromium.launch / browser.new_context succeed
Launch ==
    /\ pc = "start"
    /\ pc' = "discover"
    /\ UNCHANGED <<save_checkpoints, models_items, gi, plan, si, pages_number,
                   tasks, chunk_pos, model_car_items_slim, model_car_items,
                   car_items, model_slots, global_slot, csv_file, open_pages,
                   failures, abort_cause, enum_calls, done_groups, writes, fetched,
                   call, ret>>

\* variant: the global checkpoint file is opened for writing before the
\* browser is launched
LaunchFailTruncating ==
    /\ pc = "start"
    /\ CanFail
    /\ failures' = failures + 1
    /\ pc' = "aborted"
    /\ abort_cause' = "launch"
    /\ global_slot' = Truncated
    /\ UNCHANGED <<save_checkpoints, models_items, gi, plan, si, pages_number,
                   tasks, chunk_pos, model_car_items_slim, model_car_items,
                   car_items, model_slots, csv_file, open_pages,
                   enum_calls, done_groups, writes, fetched,
                   call, ret>>

\* p.chromium.launch or browser.new_context raises: scrape raises
LaunchFail ==
    /\ pc = "start"
    /\ CanFail
    /\ failures' = failures + 1
    /\ pc' = "aborted"
    /\ abort_cause' = "launch"
    /\ UNCHANGED <<save_checkpoints, models_items, gi, plan, si, pages_number,
                   tasks, chunk_pos, model_car_items_slim, model_car_items,
                   car_items, model_slots, global_slot, csv_file, open_pages,
                   enum_calls, done_groups, writes, fetched,
                   call, ret>>

\* variant: get_car_items takes up the list of the global checkpoint
GetModelItemsResuming ==
    /\ pc = "discover"
    /\ \E items \in ModelItemLists : models_items' = items
    /\ car_items' = global_slot.data
    /\ pc' = "loop"
    /\ UNCHANGED <<save_checkpoints, gi, plan, si, pages_number, tasks,
                   chunk_pos, model_car_items_slim, model_car_items,
                   model_slots, global_slot, csv_file, open_pages, failures,
                   abort_cause, enum_calls, done_groups, writes, fetched,
                   call, ret>>

\* get_model_items: one page of groups, parsed by parse_group_by_models_page,
\* which closes its page on the success path
GetModelItems ==
    /\ pc = "discover"
    /\ \E items \in ModelItemLists : models_items' = items
    /\ pc' = "loop"
    /\ UNCHANGED <<save_checkpoints, gi, plan, si, pages_number, tasks,
                   chunk_pos, model_car_items_slim, model_car_items, car_items,
                   model_slots, global_slot, csv_file, open_pages, failures,
                   abort_cause, enum_calls, done_groups, writes, fetched,
                   call, ret>>

\* parse_group_by_models_page fails after new_page: the handler logs and
\* returns the items parsed so far; the page is not closed on this path
GetModelItemsFail ==
    /\ pc = "discover"
    /\ CanFail
    /\ failures' = failures + 1
    /\ \E items \in ModelItemLists : models_items' = items
    /\ open_pages' = open_pages + 1
    /\ pc' = "loop"
    /\ UNCHANGED <<save_checkpoints, gi, plan, si, pages_number, tasks,
                   chunk_pos, model_car_items_slim, model_car_items, car_items,
                   model_slots, global_slot, csv_file, abort_cause, enum_calls,
                   done_groups, writes, fetched,
                   call, ret>>

----------------------------------------------------------------------------
(* get_car_items / get_model_car_items *)

\* variant: the next group is started while the global dump is still pending
GroupStartEarly ==
    /\ pc \in {"loop", "global_dump"}
    /\ gi < Len(models_items)
    /\ gi' = gi + 1
    /\ plan' = Plan(models_items[gi + 1])
    /\ si' = 0
    /\ model_car_items' = <<>>
    /\ enum_calls' = <<>>
    /\ pc' = "sub"
    /\ UNCHANGED <<save_checkpoints, models_items, pages_number, tasks,
                   chunk_pos, model_car_items_slim, car_items, model_slots,
                   global_slot, csv_file, open_pages, failures, abort_cause,
                   done_groups, writes, fetched,
                   call, ret>>

\* for model_item in models_items: call get_model_car_items, which
\* derives the page count and picks the urls
GroupStart ==
    /\ pc = "loop"
    /\ gi < Len(models_items)
    /\ gi' = gi + 1
    /\ plan' = Plan(models_items[gi + 1])
    /\ si' = 0
    /\ model_car_items' = <<>>
    /\ enum_calls' = <<>>
    /\ pc' = "sub"
    /\ UNCHANGED <<save_checkpoints, models_items, pages_number, tasks,
                   chunk_pos, model_car_items_slim, car_items, model_slots,
                   global_slot, csv_file, open_pages, failures, abort_cause,
                   done_groups, writes, fetched,
                   call, ret>>

\* where get_car_items goes after car_items.extend
AfterExtend == IF save_checkpoints THEN "model_open" ELSE "loop"

\* variant: the group is handed on while a batch is still awaited
GroupDoneMidBatch ==
    /\ pc \in {"sub", "await"}
    /\ car_items' = car_items \o model_car_items
    /\ done_groups' = Append(done_groups, model_car_items)
    /\ pc' = AfterExtend
    /\ UNCHANGED <<save_checkpoints, models_items, gi, plan, si, pages_number,
                   tasks, chunk_pos, model_car_items_slim, model_car_items,
                   model_slots, global_slot, csv_file, open_pages, failures,
                   abort_cause, enum_calls, writes, fetched,
                   call, ret>>

\* get_model_car_items returns; car_items.extend(model_car_items)
GroupDone ==
    /\ pc = "sub"
    /\ si = Len(plan)
    /\ car_items' = car_items \o model_car_items
    /\ done_groups' = Append(done_groups, model_car_items)
    /\ pc' = AfterExtend
    /\ UNCHANGED <<save_checkpoints, models_items, gi, plan, si, pages_number,
                   tasks, chunk_pos, model_car_items_slim, model_car_items,
                   model_slots, global_slot, csv_file, open_pages, failures,
                   abort_cause, enum_calls, writes, fetched,
                   call, ret>>

\* open("model_checkpoints/<brand>_<model>.pkl", "wb") truncates the file
ModelOpen ==
    /\ pc = "model_open"
    /\ model_slots' = [model_slots EXCEPT ![models_items[gi].key] = Truncated]
    /\ pc' = "model_dump"
    /\ UNCHANGED <<save_checkpoints, models_items, gi, plan, si, pages_number,
                   tasks, chunk_pos, model_car_items_slim, model_car_items,
                   car_items, global_slot, csv_file, open_pages, failures,
                   abort_cause, enum_calls, done_groups, writes, fetched,
                   call, ret>>

\* pickle.dump(model_car_items, mchp) and the file is closed
ModelDump ==
    /\ pc = "model_dump"
    /\ model_slots' = [model_slots EXCEPT
                         ![models_items[gi].key] = Dumped(model_car_items)]
    /\ writes' = Append(writes, <<"model", gi>>)
    /\ pc' = "global_open"
    /\ UNCHANGED <<save_checkpoints, models_items, gi, plan, si, pages_number,
                   tasks, chunk_pos, model_car_items_slim, model_car_items,
                   car_items, global_slot, csv_file, open_pages, failures,
                   abort_cause, enum_calls, done_groups, fetched,
                   call, ret>>

\* open("global_checkpoint/car_items.pkl", "wb") truncates the file
GlobalOpen ==
    /\ pc = "global_open"
    /\ global_slot' = Truncated
    /\ pc' = "global_dump"
    /\ UNCHANGED <<save_checkpoints, models_items, gi, plan, si, pages_number,
                   tasks, chunk_pos, model_car_items_slim, model_car_items,
                   car_items, model_slots, csv_file, open_pages, failures,
                   abort_cause, enum_calls, done_groups, writes, fetched,
                   call, ret>>

\* variant: the global file receives the list of the group alone
GlobalDumpGroupOnly ==
    /\ pc = "global_dump"
    /\ global_slot' = Dumped(model_car_items)
    /\ writes' = Append(writes, <<"global", gi>>)
    /\ pc' = "loop"
    /\ UNCHANGED <<save_checkpoints, models_items, gi, plan, si, pages_number,
                   tasks, chunk_pos, model_car_items_slim, model_car_items,
                   car_items, model_slots, csv_file, open_pages, failures,
                   abort_cause, enum_calls, done_groups, fetched,
                   call, ret>>

\* variant: the cumulative list is emptied once it has been dumped
GlobalDumpFlushing ==
    /\ pc = "global_dump"
    /\ global_slot' = Dumped(car_items)
    /\ car_items' = <<>>
    /\ writes' = Append(writes, <<"global", gi>>)
    /\ pc' = "loop"
    /\ UNCHANGED <<save_checkpoints, models_items, gi, plan, si, pages_number,
                   tasks, chunk_pos, model_car_items_slim, model_car_items,
                   model_slots, csv_file, open_pages, failures,
                   abort_cause, enum_calls, done_groups, fetched,
                   call, ret>>

\* pickle.dump(car_items, gchp) and the file is closed
GlobalDump ==
    /\ pc = "global_dump"
    /\ global_slot' = Dumped(car_items)
    /\ writes' = Append(writes, <<"global", gi>>)
    /\ pc' = "loop"
    /\ UNCHANGED <<save_checkpoints, models_items, gi, plan, si, pages_number,
                   tasks, chunk_pos, model_car_items_slim, model_car_items,
                   car_items, model_slots, csv_file, open_pages, failures,
                   abort_cause, enum_calls, done_groups, fetched,
                   call, ret>>

\* get_car_items returns; scrape writes the csv, closes the browser and returns
Sink ==
    /\ pc = "loop"
    /\ gi = Len(models_items)
    /\ csv_file' = Dumped(car_items)
    /\ pc' = "done"
    /\ UNCHANGED <<save_checkpoints, models_items, gi, plan, si, pages_number,
                   tasks, chunk_pos, model_car_items_slim, model_car_items,
                   car_items, model_slots, global_slot, open_pages, failures,
                   abort_cause, enum_calls, done_groups, writes, fetched,
                   call, ret>>

----------------------------------------------------------------------------
(* parse_model_page: _get_pages_number, then the chunks of page tasks *)

\* _get_pages_number is called with the next url; context.new_page() succeeds
EnumOpen ==
    /\ pc = "sub"
    /\ si < Len(plan)
    /\ enum_calls' = Append(enum_calls, plan[si + 1])
    /\ model_car_items_slim' = <<>>
    /\ open_pages' = open_pages + 1
    /\ pc' = "enum_goto"
    /\ UNCHANGED <<save_checkpoints, models_items, gi, plan, si, pages_number,
                   tasks, chunk_pos, model_car_items, car_items, model_slots,
                   global_slot, csv_file, failures, abort_cause, done_groups,
                   writes, fetched,
                   call, ret>>

\* page.goto(main_page) succeeds
EnumGoto ==
    /\ pc = "enum_goto"
    /\ pc' = "enum_count"
    /\ UNCHANGED <<save_checkpoints, models_items, gi, plan, si, pages_number,
                   tasks, chunk_pos, model_car_items_slim, model_car_items,
                   car_items, model_slots, global_slot, csv_file, open_pages,
                   failures, abort_cause, enum_calls, done_groups, writes, fetched,
                   call, ret>>

\* page.goto(main_page) raises: nothing between _get_pages_number and scrape
\* catches it, and the page stays open
EnumGotoFail ==
    /\ pc = "enum_goto"
    /\ CanFail
    /\ failures' = failures + 1
    /\ pc' = "aborted"
    /\ abort_cause' = "enum"
    /\ UNCHANGED <<save_checkpoints, models_items, gi, plan, si, pages_number,
                   tasks, chunk_pos, model_car_items_slim, model_car_items,
                   car_items, model_slots, global_slot, csv_file, open_pages,
                   enum_calls, done_groups, writes, fetched,
                   call, ret>>

\* the page count _get_pages_number returns for what the first page shows:
\* the warning notification, no items number element, or an items number
EnumResult(shown) ==
    IF shown.kind = "count" THEN PagesNumber(shown.items) ELSE 0

\* what the first page of a url can show
Shown ==
    [kind : {"warning", "notfound"}, items : {0}]
        \cup [kind : {"count"}, items : 0..(PAGE_ITEMS * MaxPages)]

\* _get_pages_number closes its page and returns; parse_model_page builds
\* urls, tasks and chunks
EnumCount ==
    /\ pc = "enum_count"
    /\ \E shown \in Shown :
          /\ fetched + EnumResult(shown) <= MaxFetched
          /\ fetched' = fetched + EnumResult(shown)
          /\ pages_number' = EnumResult(shown)
          /\ tasks' = [p \in 1..Len(PageRange(EnumResult(shown))) |->
                          [NewTask EXCEPT !.page = PageRange(EnumResult(shown))[p]]]
    /\ open_pages' = open_pages - 1
    /\ chunk_pos' = 0
    /\ pc' = "chunks"
    /\ UNCHANGED <<save_checkpoints, models_items, gi, plan, si,
                   model_car_items_slim, model_car_items, car_items,
                   model_slots, global_slot, csv_file, failures, abort_cause,
                   enum_calls, done_groups, writes,
                   call, ret>>

\* for chunk in chunks: asyncio.gather(*chunk) schedules every task of the chunk
GatherStart ==
    /\ pc = "chunks"
    /\ chunk_pos < Len(tasks)
    /\ tasks' = [p \in 1..Len(tasks) |->
                   IF p \in Chunk(chunk_pos)
                   THEN [tasks[p] EXCEPT !.st = "started"] ELSE tasks[p]]
    /\ pc' = "await"
    /\ UNCHANGED <<save_checkpoints, models_items, gi, plan, si, pages_number,
                   chunk_pos, model_car_items_slim, model_car_items, car_items,
                   model_slots, global_slot, csv_file, open_pages, failures,
                   abort_cause, enum_calls, done_groups, writes, fetched,
                   call, ret>>

\* the gather resolves: model_car_items_slim.extend(...), next chunk
GatherReturn ==
    /\ pc = "await"
    /\ GatherDone(chunk_pos)
    /\ model_car_items_slim' = model_car_items_slim \o ChunkResult(chunk_pos)
    /\ chunk_pos' = chunk_pos + chunks_size
    /\ pc' = "chunks"
    /\ UNCHANGED <<save_checkpoints, models_items, gi, plan, si, pages_number,
                   tasks, model_car_items, car_items, model_slots, global_slot,
                   csv_file, open_pages, failures, abort_cause, enum_calls,
                   done_groups, writes, fetched,
                   call, ret>>

\* the gather raises the exception of a task: it leaves parse_model_page,
\* get_model_car_items, get_car_items and scrape; the other tasks are abandoned
GatherRaise ==
    /\ pc = "await"
    /\ GatherFailed(chunk_pos)
    /\ pc' = "aborted"
    /\ abort_cause' = "task"
    /\ UNCHANGED <<save_checkpoints, models_items, gi, plan, si, pages_number,
                   tasks, chunk_pos, model_car_items_slim, model_car_items,
                   car_items, model_slots, global_slot, csv_file, open_pages,
                   failures, enum_calls, done_groups, writes, fetched,
                   call, ret>>

\* parse_model_page returns and its locals are gone; get_model_car_items
\* extends model_car_items (or, unsplit, takes the list as its result)
SubDone ==
    /\ pc = "chunks"
    /\ chunk_pos >= Len(tasks)
    /\ model_car_items' = model_car_items \o model_car_items_slim
    /\ si' = si + 1
    /\ pages_number' = 0
    /\ tasks' = <<>>
    /\ chunk_pos' = 0
    /\ pc' = "sub"
    /\ UNCHANGED <<save_checkpoints, models_items, gi, plan,
                   model_car_items_slim, car_items, model_slots, global_slot, csv_file, open_pages, failures,
                   abort_cause, enum_calls, done_groups, writes, fetched,
                   call, ret>>

----------------------------------------------------------------------------
(* parse_model_page_slim: one page task, a step per await *)

TaskVarsUnchanged ==
    UNCHANGED <<pc, save_checkpoints, models_items, gi, plan, si, pages_number,
                chunk_pos, model_car_items_slim, model_car_items, car_items,
                model_slots, global_slot, csv_file, abort_cause, enum_calls,
                done_groups, writes, fetched,
                   call, ret>>

Running(p) == pc = "await" /\ p \in Chunk(chunk_pos)

\* context.new_page() succeeds
TaskOpen ==
    \E p \in 1..Len(tasks) :
        /\ Running(p)
        /\ tasks[p].st = "started"
        /\ tasks' = [tasks EXCEPT ![p].st = "opened"]
        /\ open_pages' = open_pages + 1
        /\ UNCHANGED failures
        /\ TaskVarsUnchanged

\* context.new_page() raises: the handler's page.close() finds page unbound
\* and raises out of the task
TaskOpenFail ==
    \E p \in 1..Len(tasks) :
        /\ Running(p)
        /\ tasks[p].st = "started"
        /\ CanFail
        /\ failures' = failures + 1
        /\ tasks' = [tasks EXCEPT ![p].st = "raised", ![p].failed_at = "open"]
        /\ UNCHANGED open_pages
        /\ TaskVarsUnchanged

\* goto, wait_for_selector and query_selector_all succeed: at least one row
TaskLoad ==
    \E p \in 1..Len(tasks) :
        /\ Running(p)
        /\ tasks[p].st = "opened"
        /\ \E n \in 1..MaxRows :
              tasks' = [tasks EXCEPT ![p].st = "loaded", ![p].rows = n]
        /\ UNCHANGED <<open_pages, failures>>
        /\ TaskVarsUnchanged

\* variant: the except block empties the list before returning it
CaughtEmptied(t) ==
    [t EXCEPT !.st = "returned", !.caught = TRUE, !.got = 0, !.seq = NextSeq]

\* what the except block leaves: the page closed, the rows so far returned
Caught(t) == [t EXCEPT !.st = "returned", !.caught = TRUE, !.seq = NextSeq]

\* the page of a task is open: created and not closed
HoldsPage(t) == t.st \in {"opened", "loaded"} \/ (t.st = "raised" /\ t.failed_at = "close")

\* goto or wait_for_selector raises: caught, page closed, list returned
TaskLoadFail ==
    \E p \in 1..Len(tasks) :
        /\ Running(p)
        /\ tasks[p].st = "opened"
        /\ CanFail
        /\ failures' = failures + 1
        /\ tasks' = [tasks EXCEPT ![p] = Caught([tasks[p] EXCEPT !.failed_at = "load"])]
        /\ open_pages' = open_pages - 1
        /\ TaskVarsUnchanged

\* every row of the page is extracted and appended to parsed_cars_items;
\* a page task shares no state with the other tasks, so its row loop is one step
TaskRows ==
    \E p \in 1..Len(tasks) :
        /\ Running(p)
        /\ tasks[p].st = "loaded"
        /\ tasks[p].got < tasks[p].rows
        /\ tasks' = [tasks EXCEPT ![p].got = tasks[p].rows]
        /\ UNCHANGED <<open_pages, failures>>
        /\ TaskVarsUnchanged

\* extracting row k raises after k - 1 rows were appended: caught, page
\* closed, list returned
TaskRowFail ==
    \E p \in 1..Len(tasks) :
        /\ Running(p)
        /\ tasks[p].st = "loaded"
        /\ tasks[p].got < tasks[p].rows
        /\ CanFail
        /\ failures' = failures + 1
        /\ \E k \in 1..tasks[p].rows :
              tasks' = [tasks EXCEPT
                          ![p] = Caught([tasks[p] EXCEPT !.failed_at = "row",
                                                         !.fail_row = k,
                                                         !.got = k - 1])]
        /\ open_pages' = open_pages - 1
        /\ TaskVarsUnchanged

\* all rows done: page.close(), return parsed_cars_items
TaskClose ==
    \E p \in 1..Len(tasks) :
        /\ Running(p)
        /\ tasks[p].st = "loaded"
        /\ tasks[p].got = tasks[p].rows
        /\ tasks' = [tasks EXCEPT ![p].st = "returned", ![p].seq = NextSeq]
        /\ open_pages' = open_pages - 1
        /\ UNCHANGED failures
        /\ TaskVarsUnchanged

\* page.close() raises: the handler calls page.close() again, which either
\* closes the page (list returned) or raises out of the task
TaskCloseFail ==
    \E p \in 1..Len(tasks) :
        /\ Running(p)
        /\ tasks[p].st = "loaded"
        /\ tasks[p].got = tasks[p].rows
        /\ CanFail
        /\ failures' = failures + 1
        /\ \/ /\ tasks' = [tasks EXCEPT
                              ![p] = Caught([tasks[p] EXCEPT !.failed_at = "close"])]
              /\ open_pages' = open_pages - 1
           \/ /\ tasks' = [tasks EXCEPT ![p].st = "raised", ![p].failed_at = "close"]
              /\ UNCHANGED open_pages
        /\ TaskVarsUnchanged

----------------------------------------------------------------------------
(* The process dies: memory is lost, the files stay as they are *)

Crash ==
    /\ pc \notin {"done", "aborted", "crashed"}
    /\ pc' = "crashed"
    /\ plan' = <<>>
    /\ si' = 0
    /\ pages_number' = 0
    /\ tasks' = <<>>
    /\ chunk_pos' = 0
    /\ model_car_items_slim' = <<>>
    /\ model_car_items' = <<>>
    /\ car_items' = <<>>
    /\ open_pages' = 0
    /\ UNCHANGED <<save_checkpoints, models_items, gi, model_slots, global_slot,
                   csv_file, failures, abort_cause, enum_calls, done_groups,
                   writes, fetched,
                   call, ret>>

----------------------------------------------------------------------------
Next ==
    \/ Launch
    \/ LaunchFail
    \/ GetModelItems
    \/ GetModelItemsFail
    \/ GroupStart
    \/ GroupDone
    \/ ModelOpen
    \/ ModelDump
    \/ GlobalOpen
    \/ GlobalDump
    \/ Sink
    \/ EnumOpen
    \/ EnumGoto
    \/ EnumGotoFail
    \/ EnumCount
    \/ GatherStart
    \/ GatherReturn
    \/ GatherRaise
    \/ SubDone
    \/ TaskOpen
    \/ TaskOpenFail
    \/ TaskLoad
    \/ TaskLoadFail
    \/ TaskRows
    \/ TaskRowFail
    \/ TaskClose
    \/ TaskCloseFail
    \/ Crash

Spec == Init /\ [][Next]_vars

----------------------------------------------------------------------------
(* One call of get_model_car_items, on any single model item, up to the    *)
(* point where get_car_items has extended car_items with its result.       *)

InitGroup ==
    /\ pc = "loop"
    /\ save_checkpoints = TRUE
    /\ models_items \in {items \in ModelItemLists : Len(items) = 1}
    /\ gi = 0
    /\ plan = <<>>
    /\ si = 0
    /\ pages_number = 0
    /\ tasks = <<>>
    /\ chunk_pos = 0
    /\ model_car_items_slim = <<>>
    /\ model_car_items = <<>>
    /\ car_items = <<>>
    /\ model_slots = [k \in BRAND_MODELS |-> NoFile]
    /\ global_slot = Dumped(<<OldListing>>)
    /\ csv_file = NoFile
    /\ open_pages = 0
    /\ failures = 0
    /\ abort_cause = ""
    /\ enum_calls = <<>>
    /\ done_groups = <<>>
    /\ writes = <<>>
    /\ fetched = 0
    /\ call = NoCall
    /\ ret = NoCall

NextGroup ==
    \/ GroupStart
    \/ EnumOpen
    \/ EnumGoto
    \/ EnumGotoFail
    \/ EnumCount
    \/ GatherStart
    \/ GatherReturn
    \/ GatherRaise
    \/ SubDone
    \/ TaskOpen
    \/ TaskOpenFail
    \/ TaskLoad
    \/ TaskLoadFail
    \/ TaskRows
    \/ TaskRowFail
    \/ TaskClose
    \/ TaskCloseFail
    \/ GroupDone

SpecGroup == InitGroup /\ [][NextGroup]_vars

----------------------------------------------------------------------------
(* The pure functions of the program, each applied once to an argument     *)
(* drawn from a bounded set while the pipeline stays as constructed.       *)

pipeline == <<pc, save_checkpoints, models_items, gi, plan, si, pages_number,
              tasks, chunk_pos, model_car_items_slim, model_car_items,
              car_items, model_slots, global_slot, csv_file, open_pages,
              failures, abort_cause, enum_calls, done_groups, writes, fetched>>

\* the scraper as constructed, before scrape() is called
Idle ==
    /\ pc = "start"
    /\ save_checkpoints = TRUE
    /\ models_items = <<>>
    /\ gi = 0
    /\ plan = <<>>
    /\ si = 0
    /\ pages_number = 0
    /\ tasks = <<>>
    /\ chunk_pos = 0
    /\ model_car_items_slim = <<>>
    /\ model_car_items = <<>>
    /\ car_items = <<>>
    /\ model_slots = [k \in BRAND_MODELS |-> NoFile]
    /\ global_slot = Dumped(<<OldListing>>)
    /\ csv_file = NoFile
    /\ open_pages = 0
    /\ failures = 0
    /\ abort_cause = ""
    /\ enum_calls = <<>>
    /\ done_groups = <<>>
    /\ writes = <<>>
    /\ fetched = 0

----------------------------------------------------------------------------
(* parse_model_page: the slicing of the task list into chunks *)

SOURCE_CHUNKS_SIZE == 50   \* self.chunks_size as the source sets it
MaxTasks == 120            \* longest task list sliced

\* list(range(start, stop, step)) for step > 0
RECURSIVE RangeStep(_, _, _)
RangeStep(start, stop, step) ==
    IF start >= stop THEN <<>>
    ELSE <<start>> \o RangeStep(start + step, stop, step)

\* variant: the slice tasks[i : i + size + 1]
SliceOneMore(i, size, n) == [k \in 1..(Min(i + size + 1, n) - i) |-> i + k]

\* tasks[i : i + size] of a list of n tasks, as the list of 1-based positions
Slice(i, size, n) == [k \in 1..(Min(i + size, n) - i) |-> i + k]

\* [tasks[i : i + size] for i in range(0, len(tasks), size)]
Chunks(n, size) ==
    LET starts == RangeStep(0, n, size)
    IN  [c \in 1..Len(starts) |-> Slice(starts[c], size, n)]

InitChunks ==
    /\ Idle
    /\ call \in [fn : {"chunks"}, n : 0..MaxTasks,
                  size : {chunks_size, SOURCE_CHUNKS_SIZE}]
    /\ ret = NoCall

ApplyChunks ==
    /\ call.fn = "chunks"
    /\ ret = NoCall
    /\ ret' = [fn |-> "chunks", chunks |-> Chunks(call.n, call.size)]
    /\ UNCHANGED <<pipeline, call>>

NextChunks == ApplyChunks

SpecChunks == InitChunks /\ [][NextChunks]_vars

----------------------------------------------------------------------------
(* The page count formula of _get_pages_number and get_model_car_items *)

MaxItems == 2100           \* largest item count the formula is applied to

InitPages ==
    /\ Idle
    /\ call \in [fn : {"pages"}, items_number : 0..MaxItems]
    /\ ret = NoCall

\* pages_number as _get_pages_number derives it from the digits shown, and
\* the branch get_model_car_items takes for a group with that many ads
ApplyPages ==
    /\ call.fn = "pages"
    /\ ret = NoCall
    /\ ret' = [fn |-> "pages",
               pages_number |-> PagesNumber(call.items_number),
               split |-> Plan([key |-> "toyota_camry", start_year |-> FirstYear,
                               last_year |-> FirstYear,
                               ads_number |-> call.items_number])
                         # <<WholeGroup>>]
    /\ UNCHANGED <<pipeline, call>>

NextPages == ApplyPages

SpecPages == InitPages /\ [][NextPages]_vars

----------------------------------------------------------------------------
(* _get_pages_number on a loaded first page, in both scrapers *)

MaxTextLen == 3            \* longest inner text of the items number element

DigitChars == {"0", "1", "2"}
TextChars == DigitChars \cup {" ", "x"}
Texts == UNION {[1..k -> TextChars] : k \in 0..MaxTextLen}

\* what a loaded first page holds: the warning notification or not, and the
\* items number element with its text or not
FirstPages ==
    [warning : BOOLEAN, present : {TRUE}, text : Texts]
        \cup [warning : BOOLEAN, present : {FALSE}, text : {<<>>}]

IsDigit(c) == c \in DigitChars
DigitValue(c) == CASE c = "0" -> 0 [] c = "1" -> 1 [] c = "2" -> 2

\* int(s) for a non-empty string of decimal digits
RECURSIVE IntOfDigits(_)
IntOfDigits(digits) ==
    IF digits = <<>> THEN 0
    ELSE 10 * IntOfDigits(SubSeq(digits, 1, Len(digits) - 1))
         + DigitValue(digits[Len(digits)])

\* int("".join(filter(str.isdigit, text))) then the page count formula;
\* int("") raises ValueError
CountFromText(text, queries) ==
    LET digits == SelectSeq(text, IsDigit)
    IN  IF digits = <<>>
        THEN [ok |-> FALSE, value |-> "ValueError", queries |-> queries,
              from_digits |-> TRUE]
        ELSE [ok |-> TRUE, value |-> PagesNumber(IntOfDigits(digits)),
              queries |-> queries, from_digits |-> TRUE]

\* DromScraper._get_pages_number after page.goto: the warning query first,
\* then the items number query
GetPagesNumber(page) ==
    IF page.warning
    THEN [ok |-> TRUE, value |-> 0, queries |-> <<"warning">>,
          from_digits |-> FALSE]
    ELSE IF ~page.present
    THEN [ok |-> TRUE, value |-> 0, queries |-> <<"warning", "count">>,
          from_digits |-> FALSE]
    ELSE CountFromText(page.text, <<"warning", "count">>)

\* SimpleDromScraper._get_pages_number after fetch: select_one and .text
\* at once; None.text raises AttributeError
SimpleGetPagesNumber(page) ==
    IF ~page.present
    THEN [ok |-> FALSE, value |-> "AttributeError", queries |-> <<"count">>,
          from_digits |-> FALSE]
    ELSE CountFromText(page.text, <<"count">>)

InitEnum ==
    /\ Idle
    /\ call \in [fn : {"enum"}, scraper : {"DromScraper", "SimpleDromScraper"},
                  page : FirstPages]
    /\ ret = NoCall

ApplyEnum ==
    /\ call.fn = "enum"
    /\ ret = NoCall
    /\ ret' = [fn |-> "enum",
               out |-> IF call.scraper = "DromScraper"
                       THEN GetPagesNumber(call.page)
                       ELSE SimpleGetPagesNumber(call.page)]
    /\ UNCHANGED <<pipeline, call>>

NextEnum == ApplyEnum

SpecEnum == InitEnum /\ [][NextEnum]_vars

----------------------------------------------------------------------------
(* _intercept_route: the decision on one intercepted request.  A url is a  *)
(* sequence of pieces of text; a name is contained in a url when its       *)
(* pieces occur in it side by side.                                        *)

MaxUrlLen == 2             \* most pieces in a request url

BLOCK_RESOURCE_TYPES ==
    {"beacon", "csp_report", "font", "image", "imageset", "media", "object",
     "texttrack"}

BLOCK_RESOURCE_NAMES ==
    {<<"adzerk">>, <<"analytics">>, <<"cdn.api.twitter">>, <<"doubleclick">>,
     <<"exelator">>, <<"facebook">>, <<"fontawesome">>, <<"google">>,
     <<"google", "-", "analytics">>, <<"google", "tagmanager">>}

\* resource types playwright reports, blocked or not
ResourceTypes == BLOCK_RESOURCE_TYPES \cup {"document", "script", "stylesheet", "xhr"}

UrlPieces ==
    {"adzerk", "analytics", "cdn.api.twitter", "doubleclick", "exelator",
     "facebook", "fontawesome", "google", "tagmanager", "-", "drom.ru", "auto"}
Urls == UNION {[1..k -> UrlPieces] : k \in 1..MaxUrlLen}

Requests == [resource_type : ResourceTypes, url : Urls]

\* key in url
Contains(url, key) ==
    \E i \in 1..(Len(url) - Len(key) + 1) : SubSeq(url, i, i + Len(key) - 1) = key

\* variant: the url must contain every listed name
InterceptRouteAllNames(request) ==
    IF request.resource_type \in BLOCK_RESOURCE_TYPES THEN <<"abort">>
    ELSE IF \A key \in BLOCK_RESOURCE_NAMES : Contains(request.url, key)
    THEN <<"abort">>
    ELSE <<"continue">>

\* _intercept_route: the calls made on the route, in order
InterceptRoute(request) ==
    IF request.resource_type \in BLOCK_RESOURCE_TYPES THEN <<"abort">>
    ELSE IF \E key \in BLOCK_RESOURCE_NAMES : Contains(request.url, key)
    THEN <<"abort">>
    ELSE <<"continue">>

InitRoute ==
    /\ Idle
    /\ call \in [fn : {"route"}, request : Requests]
    /\ ret = NoCall

ApplyRoute ==
    /\ call.fn = "route"
    /\ ret = NoCall
    /\ ret' = [fn |-> "route", decisions |-> InterceptRoute(call.request)]
    /\ UNCHANGED <<pipeline, call>>

NextRoute == ApplyRoute

SpecRoute == InitRoute /\ [][NextRoute]_vars

----------------------------------------------------------------------------
(* get_date_from_car_item_date.  A text is the list of its whitespace      *)
(* separated tokens; the Russian words are written in Latin letters.       *)
(* A date is <<year, month, day>>.                                         *)

MaxTokens == 2             \* most tokens in a date text

month_number ==
    ("yanvarya" :> 1) @@ ("fevralya" :> 2) @@ ("marta" :> 3) @@ ("aprelya" :> 4)
    @@ ("maya" :> 5) @@ ("iyunya" :> 6) @@ ("iyulya" :> 7) @@ ("avgusta" :> 8)
    @@ ("sentyabrya" :> 9) @@ ("oktyabrya" :> 10) @@ ("noyabrya" :> 11)
    @@ ("dekabrya" :> 12)

today_key_words == {"segodnya", "nazad"}

\* the tokens int() accepts, with their values
IntTokens ==
    ("0" :> 0) @@ ("5" :> 5) @@ ("20" :> 20) @@ ("29" :> 29) @@ ("30" :> 30)
    @@ ("31" :> 31)

DateTokens == DOMAIN month_number \cup today_key_words \cup DOMAIN IntTokens \cup {"x"}
DateTexts == UNION {[1..k -> DateTokens] : k \in 0..MaxTokens}

\* values of datetime.datetime.now().date()
Todays == {<<2024, 6, 1>>, <<2023, 12, 31>>, <<2025, 1, 15>>, <<2024, 3, 5>>}

IsLeap(year) == year % 4 = 0 /\ (year % 100 # 0 \/ year % 400 = 0)

DaysInMonth(year, month) ==
    IF month = 2 THEN (IF IsLeap(year) THEN 29 ELSE 28)
    ELSE IF month \in {4, 6, 9, 11} THEN 30
    ELSE 31

Digit(n) == <<"0", "1", "2", "3", "4", "5", "6", "7", "8", "9">>[n + 1]

\* date.isoformat(): YYYY-MM-DD, zero padded
IsoFormat(date) ==
    <<Digit(date[1] \div 1000), Digit((date[1] \div 100) % 10),
      Digit((date[1] \div 10) % 10), Digit(date[1] % 10), "-",
      Digit(date[2] \div 10), Digit(date[2] % 10), "-",
      Digit(date[3] \div 10), Digit(date[3] % 10)>>

\* variant: the current year is kept only for months before the current one
InferYearStrict(today, month) == IF today[2] > month THEN today[1] ELSE today[1] - 1

\* year = today.year if today.month >= month else today.year - 1
InferYear(today, month) == IF today[2] >= month THEN today[1] ELSE today[1] - 1

\* variant: datetime.date accepts any day up to 31
MakeDateLoose(year, month, day) ==
    IF day < 1 \/ day > 31 THEN Failed("ValueError")
    ELSE Returned(IsoFormat(<<year, month, day>>))

\* datetime.date(year, month, day).isoformat(); ValueError when the day is
\* out of range for the month
MakeDate(year, month, day) ==
    IF day < 1 \/ day > DaysInMonth(year, month) THEN Failed("ValueError")
    ELSE Returned(IsoFormat(<<year, month, day>>))

\* get_date_from_car_item_date(car_item_date) on a day whose date is today
GetDate(splited, today) ==
    IF \E i \in 1..Len(splited) : splited[i] \in today_key_words
    THEN Returned(IsoFormat(today))
    ELSE IF Len(splited) < 1 THEN Failed("IndexError")
    ELSE IF splited[1] \notin DOMAIN IntTokens THEN Failed("ValueError")
    ELSE IF Len(splited) < 2 THEN Failed("IndexError")
    ELSE IF splited[2] \notin DOMAIN month_number THEN Failed("KeyError")
    ELSE MakeDate(InferYear(today, month_number[splited[2]]),
                  month_number[splited[2]], IntTokens[splited[1]])

InitDate ==
    /\ Idle
    /\ call \in [fn : {"date"}, text : DateTexts, today : Todays]
    /\ ret = NoCall

ApplyDate ==
    /\ call.fn = "date"
    /\ ret = NoCall
    /\ ret' = [fn |-> "date", out |-> GetDate(call.text, call.today)]
    /\ UNCHANGED <<pipeline, call>>

NextDate == ApplyDate

SpecDate == InitDate /\ [][NextDate]_vars

----------------------------------------------------------------------------
(* parse_car_item_desription.  A description is the list of its lexemes,   *)
(* one blank apart; the lexeme "_" is one more blank.  The Russian words   *)
(* are written in Latin letters ("l" litres, "l.s." horsepower, "km").     *)

MaxLexemes == 3            \* most lexemes in a description

\* decimal numbers, with the digit before and the digit after the point
Decimals == ("2.5" :> <<2, 5>>) @@ ("1.6" :> <<1, 6>>)
\* runs of digits, with their digits
Integers10 == ("181" :> <<1, 8, 1>>) @@ ("45" :> <<4, 5>>) @@ ("000" :> <<0, 0, 0>>)

FuelWords == {"benzin", "dizel"}
TransmissionWords == {"avtomat", "AKPP"}
DriveWords == {"4WD", "zadniy"}

Lexemes ==
    DOMAIN Decimals \cup DOMAIN Integers10 \cup {"l", "l.s.", "km", "tys.", "_"}
        \cup FuelWords \cup TransmissionWords \cup DriveWords
Descriptions == UNION {[1..k -> Lexemes] : k \in 0..MaxLexemes}

param_specification ==
    <<"capacity", "power", "fuel", "transmission", "drive", "mileage">>

\* the lexeme that follows position i after whitespace, "" at the end
RECURSIVE NextWord(_, _)
NextWord(d, i) ==
    IF i >= Len(d) THEN ""
    ELSE IF d[i + 1] = "_" THEN NextWord(d, i + 1)
    ELSE d[i + 1]

\* [0-9\s]+ from position i with (?=\s+km) after it: the position of the
\* last lexeme before "km" when digits and blanks alone lead there, else 0
RECURSIVE RunEnd(_, _)
RunEnd(d, i) ==
    IF i > Len(d) THEN 0
    ELSE IF d[i] = "km" THEN i - 1
    ELSE IF d[i] \in DOMAIN Integers10 \cup {"_"} THEN RunEnd(d, i + 1)
    ELSE 0

\* filter(str.isdigit, ...) over the lexemes from..to
RECURSIVE RunDigits(_, _, _)
RunDigits(d, from, to) ==
    IF from > to THEN <<>>
    ELSE (IF d[from] \in DOMAIN Integers10 THEN Integers10[d[from]] ELSE <<>>)
         \o RunDigits(d, from + 1, to)

NoMatch == [param |-> "none", raw |-> <<>>, next |-> 0]

\* the match of the alternation that starts in lexeme i, alternatives tried
\* in the order of param_specification
MatchAt(d, i) ==
    IF d[i] \in DOMAIN Decimals /\ NextWord(d, i) \in {"l", "l.s."}
    THEN [param |-> "capacity", raw |-> Decimals[d[i]], next |-> i + 1]
    ELSE IF d[i] \in DOMAIN Integers10 /\ NextWord(d, i) = "l.s."
    THEN [param |-> "power", raw |-> Integers10[d[i]], next |-> i + 1]
    ELSE IF d[i] \in FuelWords
    THEN [param |-> "fuel", raw |-> d[i], next |-> i + 1]
    ELSE IF d[i] \in TransmissionWords
    THEN [param |-> "transmission", raw |-> d[i], next |-> i + 1]
    ELSE IF d[i] \in DriveWords
    THEN [param |-> "drive", raw |-> d[i], next |-> i + 1]
    ELSE IF d[i] \in DOMAIN Integers10 \cup {"_"} /\ RunEnd(d, i) >= i
    THEN [param |-> "mileage", raw |-> RunDigits(d, i, RunEnd(d, i)),
          next |-> RunEnd(d, i) + 1]
    ELSE IF d[i] \in DOMAIN Decimals /\ RunEnd(d, i + 1) >= i
    THEN [param |-> "mileage",
          raw |-> <<Decimals[d[i]][2]>> \o RunDigits(d, i + 1, RunEnd(d, i + 1)),
          next |-> RunEnd(d, i + 1) + 1]
    ELSE NoMatch

\* re.finditer(params_re_group, item_desription): the matches from
\* position i on, left to right, none overlapping
RECURSIVE FindIter(_, _)
FindIter(d, i) ==
    IF i > Len(d) THEN <<>>
    ELSE IF MatchAt(d, i) = NoMatch THEN FindIter(d, i + 1)
    ELSE <<MatchAt(d, i)>> \o FindIter(d, MatchAt(d, i).next)

\* int(s) for a string of decimal digits
RECURSIVE IntOf(_)
IntOf(digits) ==
    IF digits = <<>> THEN 0
    ELSE 10 * IntOf(SubSeq(digits, 1, Len(digits) - 1)) + digits[Len(digits)]

\* float(value) and int(value) of a match; int("") raises ValueError
Converts(mo) == mo.param # "mileage" \/ mo.raw # <<>>
Converted(mo) ==
    IF mo.param \in {"power", "mileage"} THEN IntOf(mo.raw) ELSE mo.raw

None == [some |-> FALSE]
Some(value) == [some |-> TRUE, v |-> value]

\* variant: a parameter that has a value keeps it
StoreFirst(param_dict, mo) ==
    IF param_dict[mo.param].some THEN param_dict
    ELSE [param_dict EXCEPT ![mo.param] = Some(Converted(mo))]

\* param_dict[param] = value
Store(param_dict, mo) == [param_dict EXCEPT ![mo.param] = Some(Converted(mo))]

\* the loop over the matches, from match k on
RECURSIVE ScanFrom(_, _, _)
ScanFrom(matches, k, param_dict) ==
    IF k > Len(matches) THEN Returned(param_dict)
    ELSE IF ~Converts(matches[k]) THEN Failed("ValueError")
    ELSE ScanFrom(matches, k + 1, Store(param_dict, matches[k]))

\* parse_car_item_desription(item_desription)
ParseDescription(d) ==
    ScanFrom(FindIter(d, 1), 1,
             [key \in {param_specification[k] : k \in 1..Len(param_specification)}
                 |-> None])

InitExtract ==
    /\ Idle
    /\ call \in [fn : {"extract"}, description : Descriptions]
    /\ ret = NoCall

ApplyExtract ==
    /\ call.fn = "extract"
    /\ ret = NoCall
    /\ ret' = [fn |-> "extract", matches |-> FindIter(call.description, 1),
               out |-> ParseDescription(call.description)]
    /\ UNCHANGED <<pipeline, call>>

NextExtract == ApplyExtract

SpecExtract == InitExtract /\ [][NextExtract]_vars

----------------------------------------------------------------------------
(* get_year_intervals, and DromSpider.parse which calls it *)

FirstIntervalYear == 1996  \* earliest min_year drawn
LastIntervalYear == 2013   \* latest max_year drawn

range_points == <<2000, 2005, 2010>>

\* the loop over range_points from point k on: the intervals appended and
\* next_year after it
RECURSIVE RangeLoop(_, _, _, _)
RangeLoop(k, min_year, next_year, year_intervals) ==
    IF k > Len(range_points)
    THEN [year_intervals |-> year_intervals, next_year |-> next_year]
    ELSE IF min_year < range_points[k]
    THEN RangeLoop(k + 1, min_year, range_points[k] + 1,
                   Append(year_intervals, <<next_year, range_points[k]>>))
    ELSE RangeLoop(k + 1, min_year, next_year, year_intervals)

\* get_year_intervals(min_year, max_year)
GetYearIntervals(min_year, max_year) ==
    LET after == RangeLoop(1, min_year, min_year, <<>>)
    IN  after.year_intervals
        \o [k \in 1..Max(0, max_year - after.next_year + 1) |->
               <<after.next_year + k - 1, after.next_year + k - 1>>]

InitYears ==
    /\ Idle
    /\ call \in {c \in [fn : {"years"},
                         min_year : FirstIntervalYear..LastIntervalYear,
                         max_year : FirstIntervalYear..LastIntervalYear] :
                    c.min_year <= c.max_year}
    /\ ret = NoCall

ApplyYears ==
    /\ call.fn = "years"
    /\ ret = NoCall
    /\ ret' = [fn |-> "years",
               year_intervals |-> GetYearIntervals(call.min_year, call.max_year)]
    /\ UNCHANGED <<pipeline, call>>

NextYears == ApplyYears

SpecYears == InitYears /\ [][NextYears]_vars

MaxModels == 2             \* most model blocks on the page DromSpider parses
SPIDER_SPLIT_ADS == 2000   \* parse slices a model with more ads than this
Dash == 0                  \* the dash between the two years of a model block

SpiderYears == {1999, 2011, 2012}

\* the model blocks a response can hold: the year texts (one year, or two
\* around a dash) and the number of ads
ModelBlocks ==
    [model_years : {<<a>> : a \in SpiderYears}
                      \cup {<<q[1], Dash, q[2]>> :
                              q \in {r \in SpiderYears \X SpiderYears : r[1] < r[2]}},
     ads_number : {SPIDER_SPLIT_ADS, SPIDER_SPLIT_ADS + 1}]
Responses == UNION {[1..k -> ModelBlocks] : k \in 1..MaxModels}

\* min_year, max_year of a block
BlockYears(block) ==
    IF Len(block.model_years) = 3
    THEN <<block.model_years[1], block.model_years[3]>>
    ELSE <<block.model_years[1], block.model_years[1]>>

\* the request for one year interval of model i, and the one for its own url
SlicedRequest(i, interval) ==
    [model_url |-> i, sliced |-> TRUE, minyear |-> interval[1], maxyear |-> interval[2]]
WholeRequest(i) == [model_url |-> i, sliced |-> FALSE, minyear |-> 0, maxyear |-> 0]

\* the requests the body of parse's loop yields for block i
BlockRequests(i, block) ==
    LET year_intervals == GetYearIntervals(BlockYears(block)[1], BlockYears(block)[2])
    IN  (IF block.ads_number > SPIDER_SPLIT_ADS
         THEN [k \in 1..Len(year_intervals) |-> SlicedRequest(i, year_intervals[k])]
         ELSE <<>>)
        \o <<WholeRequest(i)>>

\* DromSpider.parse(response): every request it yields, in order
Parse(response) == Flatten([i \in 1..Len(response) |-> BlockRequests(i, response[i])])

InitSpider ==
    /\ Idle
    /\ call \in [fn : {"parse"}, response : Responses]
    /\ ret = NoCall

ApplySpider ==
    /\ call.fn = "parse"
    /\ ret = NoCall
    /\ ret' = [fn |-> "parse", requests |-> Parse(call.response)]
    /\ UNCHANGED <<pipeline, call>>

NextSpider == ApplySpider

SpecSpider == InitSpider /\ [][NextSpider]_vars

----------------------------------------------------------------------------
(* The checkpoint files as byte streams: pickle.dump writes a list as a    *)
(* sequence of opcodes, and a reader rebuilds the list on a stack.         *)

Op(name) == [op |-> name, v |-> <<>>]
Item(x) == [op |-> "ITEM", v |-> x]

\* variant: the batch of appended items misses the last element of the list
PickleDumpShort(items) ==
    <<Op("PROTO"), Op("EMPTY_LIST")>>
    \o (IF Len(items) = 0 THEN <<>>
        ELSE IF Len(items) = 1 THEN <<Op("APPEND")>>
        ELSE <<Op("MARK")>> \o [k \in 1..(Len(items) - 1) |-> Item(items[k])]
             \o <<Op("APPENDS")>>)
    \o <<Op("STOP")>>

\* pickle.dump(items, f, pickle.HIGHEST_PROTOCOL) for a list: an empty list,
\* then its elements appended (one APPEND, or MARK ... APPENDS), then STOP
PickleDump(items) ==
    <<Op("PROTO"), Op("EMPTY_LIST")>>
    \o (IF Len(items) = 0 THEN <<>>
        ELSE IF Len(items) = 1 THEN <<Item(items[1]), Op("APPEND")>>
        ELSE <<Op("MARK")>> \o [k \in 1..Len(items) |-> Item(items[k])]
             \o <<Op("APPENDS")>>)
    \o <<Op("STOP")>>

\* the bytes of a checkpoint file: nothing after open(..., "wb"), the
\* pickle of the dumped list after pickle.dump
FileBytes(slot) == IF slot.state = "dumped" THEN PickleDump(slot.data) ELSE <<>>

\* position of the topmost mark on the unpickler's stack, 0 if none
TopMark(stack) ==
    LET marks == {m \in 1..Len(stack) : stack[m].op = "MARK"}
    IN  IF marks = {} THEN 0 ELSE CHOOSE m \in marks : \A q \in marks : q <= m

\* pickle.load: run the opcodes against a stack until STOP
RECURSIVE PickleRun(_, _)
PickleRun(bytes, stack) ==
    IF bytes = <<>> THEN Failed("EOFError")
    ELSE LET b == Head(bytes)
             rest == Tail(bytes)
             n == Len(stack)
         IN  CASE b.op = "PROTO" -> PickleRun(rest, stack)
               [] b.op = "EMPTY_LIST" -> PickleRun(rest, Append(stack, Item(<<>>)))
               [] b.op = "ITEM" -> PickleRun(rest, Append(stack, b))
               [] b.op = "MARK" -> PickleRun(rest, Append(stack, b))
               [] b.op = "APPEND" ->
                    IF n < 2 THEN Failed("UnpicklingError")
                    ELSE PickleRun(rest,
                             Append(SubSeq(stack, 1, n - 2),
                                    Item(Append(stack[n - 1].v, stack[n].v))))
               [] b.op = "APPENDS" ->
                    LET m == TopMark(stack)
                    IN  IF m < 2 THEN Failed("UnpicklingError")
                        ELSE PickleRun(rest,
                                 Append(SubSeq(stack, 1, m - 2),
                                        Item(stack[m - 1].v
                                             \o [k \in 1..(n - m) |-> stack[m + k].v])))
               [] b.op = "STOP" ->
                    IF n = 0 THEN Failed("UnpicklingError") ELSE Returned(stack[n].v)

\* load_global(): read global_checkpoint/car_items.pkl back
LoadGlobal(slot) ==
    IF slot.state = "nofile" THEN Failed("FileNotFoundError")
    ELSE PickleRun(FileBytes(slot), <<>>)

----------------------------------------------------------------------------
(* Properties of the concurrent fetch scheduler (parse_model_page) *)

\* 0-based number of the batch that holds task p
BatchOf(p) == (p - 1) \div chunks_size

\* C1: batches run strictly one after another: whenever a task of a later
\* batch has been started, every task of every earlier batch has resolved.
C1_BatchesSequential ==
    \A p, q \in 1..Len(tasks) :
        (BatchOf(p) < BatchOf(q) /\ tasks[q].st # "created") => Resolved(tasks[p])

\* C1 witness: a task of the second batch is running after the first batch
\* ran its tasks concurrently and resolved.
C1_Witness ==
    \E q \in 1..Len(tasks) :
        /\ BatchOf(q) = 1
        /\ tasks[q].st = "loaded"
        /\ \A p \in 1..chunks_size : tasks[p].st = "returned" /\ tasks[p].got > 0

\* C2 (as claimed): the failure of a page task never leaves the scheduler,
\* so scrape is never aborted by the exception of a page task.
C2_TaskFailureContained == ~(pc = "aborted" /\ abort_cause = "task")

----------------------------------------------------------------------------
(* Properties of the checkpoints (get_car_items) *)

\* number of groups whose two checkpoint writes are complete
Checkpointed == Cardinality({i \in 1..Len(writes) : writes[i][1] = "global"})

\* done_groups[1] \o ... \o done_groups[k]
RECURSIVE GroupsUpTo(_)
GroupsUpTo(k) == IF k = 0 THEN <<>> ELSE GroupsUpTo(k - 1) \o done_groups[k]

\* C4 (as claimed): after a crash, the global file holds the cumulative
\* listings of the groups checkpointed before the crash and the file of each
\* such group holds the listings of that group.
C4_CrashKeepsCheckpointedGroups ==
    (pc = "crashed" /\ Checkpointed >= 1) =>
        /\ global_slot = Dumped(GroupsUpTo(Checkpointed))
        /\ \A k \in 1..Checkpointed :
              model_slots[models_items[k].key] = Dumped(done_groups[k])

\* C5: once both checkpoint writes of group k are complete, the global file
\* holds the lists of groups 1..k concatenated in processing order and the
\* file keyed by the brand and model of group k holds the list of group k.
C5_CheckpointContents ==
    (pc = "loop" /\ save_checkpoints /\ gi >= 1) =>
        /\ Len(done_groups) = gi
        /\ global_slot = Dumped(GroupsUpTo(gi))
        /\ model_slots[models_items[gi].key] = Dumped(done_groups[gi])
        /\ \A k \in 1..gi : \A n \in 1..Len(done_groups[k]) : done_groups[k][n][1] = k

\* C5 witness: the writes of the second group are complete and both groups
\* collected listings.
C5_Witness ==
    /\ pc = "loop"
    /\ save_checkpoints
    /\ gi = 2
    /\ Len(done_groups) = 2
    /\ done_groups[1] # <<>>
    /\ done_groups[2] # <<>>

\* C6: checkpoint writes are completed in group order, the group file before
\* the global file, and while group k is enumerated or fetched both writes
\* of every group before k are complete.
C6_GroupsSequential ==
    /\ \A i \in 1..Len(writes) :
          writes[i] = <<IF i % 2 = 1 THEN "model" ELSE "global", (i + 1) \div 2>>
    /\ (save_checkpoints /\ pc \in {"sub", "enum_goto", "enum_count", "chunks", "await"})
          => Len(writes) = 2 * (gi - 1)

\* C6 witness: page tasks of the second group are running and the two
\* writes of the first group are complete.
C6_Witness ==
    /\ pc = "await"
    /\ gi = 2
    /\ save_checkpoints
    /\ writes = << <<"model", 1>>, <<"global", 1>> >>
    /\ \E p \in 1..Len(tasks) : InFlight(tasks[p])

----------------------------------------------------------------------------
(* Properties of the orchestrator (get_model_car_items) *)

\* C7 (as claimed): a navigation failure of _get_pages_number never halts
\* the crawl.
C7_EnumFailureContained == ~(pc = "aborted" /\ abort_cause = "enum")

\* get_model_car_items has returned for group gi
GroupReturned == gi >= 1 /\ Len(done_groups) = gi

\* C8: a group of more than 2000 advertisements causes one _get_pages_number
\* call per year start_year..last_year, ascending, and none for the whole
\* group; a group of at most 2000 causes one call, for the whole group.
\* While the group is in progress the calls made are a prefix of these.
C8_SplitCalls ==
    gi >= 1 =>
        LET item == models_items[gi]
            split == item.ads_number > 2000
        IN  /\ split =>
                 /\ Len(enum_calls) <= item.last_year - item.start_year + 1
                 /\ \A k \in 1..Len(enum_calls) : enum_calls[k] = item.start_year + k - 1
            /\ ~split => (enum_calls = <<>> \/ enum_calls = <<WholeGroup>>)
            /\ (GroupReturned /\ split) =>
                 Len(enum_calls) = item.last_year - item.start_year + 1
            /\ (GroupReturned /\ ~split) => enum_calls = <<WholeGroup>>

\* C8 witness: a group of 2001 advertisements spanning two years returned
\* after one call per year.
C8_Witness ==
    /\ GroupReturned
    /\ models_items[gi].ads_number = 2001
    /\ models_items[gi].last_year = models_items[gi].start_year + 1
    /\ enum_calls = <<models_items[gi].start_year, models_items[gi].last_year>>

\* C8 witness of the boundary: a group of exactly 2000 advertisements
\* returned after a single call for the whole group.
C8_WitnessBoundary ==
    /\ GroupReturned
    /\ models_items[gi].ads_number = 2000
    /\ enum_calls = <<WholeGroup>>

\* C9: at most chunks_size page tasks are in flight at any moment, and at
\* most chunks_size pages opened by page tasks are open.
C9_BoundedFanOut ==
    /\ Cardinality({p \in 1..Len(tasks) : InFlight(tasks[p])}) <= chunks_size
    /\ Cardinality({p \in 1..Len(tasks) : HoldsPage(tasks[p])}) <= chunks_size

\* C9 witness: a sub-crawl of more pages than chunks_size has chunks_size
\* tasks in flight, each with its page open.
C9_Witness ==
    /\ Len(tasks) > chunks_size
    /\ Cardinality({p \in 1..Len(tasks) :
                       InFlight(tasks[p]) /\ HoldsPage(tasks[p])}) = chunks_size

\* the listings of pages 1..n in page order, each page's rows contiguous
RECURSIVE PagesInOrder(_)
PagesInOrder(n) ==
    IF n = 0 THEN <<>>
    ELSE PagesInOrder(n - 1) \o [r \in 1..tasks[n].got |-> <<gi, plan[si + 1], n, r>>]

----------------------------------------------------------------------------
(* Properties of the whole crawl (get_car_items, scrape) *)

\* C11: whatever page fetches fail, the crawl completes: when the run has
\* stopped and nothing but page tasks failed in it, every discovered group
\* was processed in turn and the cumulative result was handed to the sink.
C11_CrawlCompletes ==
    (pc \in {"done", "aborted"} /\ abort_cause \in {"", "task"}) =>
        /\ Len(done_groups) = Len(models_items)
        /\ csv_file = Dumped(car_items)

\* the orchestrator is at one of the statements that write a checkpoint
AtCheckpointWrite == pc \in {"model_open", "model_dump", "global_open", "global_dump"}

\* C12: a checkpoint is written only when no page task is in flight: while
\* either slot is being written every sub-crawl of the group has returned,
\* no batch is awaited, and the group's list is the finished one.
C12_WritesAfterGroupResolved ==
    AtCheckpointWrite =>
        /\ \A p \in 1..Len(tasks) : ~InFlight(tasks[p])
        /\ si = Len(plan)
        /\ chunk_pos >= Len(tasks)
        /\ model_car_items = done_groups[gi]

\* C12 witness: the global slot is being written for a group whose pages
\* were fetched in more than one batch and yielded listings.
C12_Witness ==
    /\ pc = "global_dump"
    /\ fetched > chunks_size
    /\ model_car_items # <<>>
    /\ model_slots[models_items[gi].key] = Dumped(model_car_items)

----------------------------------------------------------------------------
(* Properties of the batching arithmetic *)

\* C13: n tasks are sliced into exactly ceil(n / size) batches, every batch
\* but the last holds exactly size tasks, the last holds between 1 and size,
\* and the batches concatenated in order are the original task sequence;
\* 120 tasks with size 50 give batches of 50, 50 and 20, 0 tasks give none.
C13_Batches ==
    ret.fn = "chunks" =>
        LET n == call.n
            size == call.size
            b == ret.chunks
        IN  /\ Len(b) * size >= n
            /\ (Len(b) - 1) * size < n
            /\ \A c \in 1..Len(b) :
                  IF c < Len(b) THEN Len(b[c]) = size
                  ELSE Len(b[c]) >= 1 /\ Len(b[c]) <= size
            /\ Flatten(b) = [k \in 1..n |-> k]
            /\ n = 0 => b = <<>>
            /\ (n = 120 /\ size = 50) =>
                  [c \in 1..Len(b) |-> Len(b[c])] = <<50, 50, 20>>

\* C13 witness: 120 tasks were sliced with the source's batch size into
\* three batches.
C13_Witness ==
    /\ ret.fn = "chunks"
    /\ call.n = 120
    /\ call.size = SOURCE_CHUNKS_SIZE
    /\ Len(ret.chunks) = 3

----------------------------------------------------------------------------
(* Properties of the checkpoint files *)

\* C14: reading the global checkpoint right after get_car_items has dumped
\* its cumulative list L returns a list equal to L, the empty list included.
C14_RoundTrip ==
    (save_checkpoints /\ pc = "loop" /\ gi >= 1) =>
        LoadGlobal(global_slot) = Returned(car_items)

\* C14 witness: a cumulative list of several listings was dumped.
C14_Witness ==
    /\ save_checkpoints
    /\ pc = "loop"
    /\ gi >= 1
    /\ Len(car_items) > 1
    /\ global_slot.state = "dumped"

\* C14, the empty list: a first group without listings was dumped.
C14_WitnessEmpty ==
    /\ save_checkpoints
    /\ pc = "loop"
    /\ gi >= 1
    /\ car_items = <<>>
    /\ global_slot.state = "dumped"

----------------------------------------------------------------------------
(* Properties of the page enumerator *)

\* C15: for every item count n >= 0 the page count is ceil(n / 20), the
\* least k with 20 * k >= n, in _get_pages_number as in the split decision
\* of get_model_car_items (split exactly when ceil(n / 20) > 100); the
\* counts 0, 20 and 21 give 0, 1 and 2 pages.
C15_PageCountIsCeiling ==
    ret.fn = "pages" =>
        LET n == call.items_number
            k == ret.pages_number
        IN  /\ 20 * k >= n
            /\ 20 * (k - 1) < n
            /\ ret.split <=> (n > 20 * 100)
            /\ n = 0 => k = 0
            /\ n = 20 => k = 1
            /\ n = 21 => k = 2

\* C15 witness: the count 21, one above a full page, was converted.
C15_Witness ==
    /\ ret.fn = "pages"
    /\ call.items_number = 21
    /\ ret.pages_number = 2

\* the enumerator's promise on one loaded first page
Degrades(page, out) ==
    /\ page.warning =>
          out.ok /\ out.value = 0 /\ \A q \in 1..Len(out.queries) : out.queries[q] # "count"
    /\ (~page.warning /\ ~page.present) => out.ok /\ out.value = 0
    /\ out.from_digits => page.present

\* C16: on a loaded first page the enumerator returns 0 without the count
\* query when the no-results indicator is present, returns 0 and raises
\* nothing when neither indicator is present, and derives a count from
\* digits only when the count indicator is present.
C16_EnumeratorDegrades == ret.fn = "enum" => Degrades(call.page, ret.out)

\* the same promise, for DromScraper alone
C16_DromScraperDegrades ==
    (ret.fn = "enum" /\ call.scraper = "DromScraper") => Degrades(call.page, ret.out)

----------------------------------------------------------------------------
(* Properties of the request filter *)

\* the pieces of name occur side by side somewhere in url
Occurs(name, url) ==
    \E i \in 1..Len(url) :
        \A j \in 1..Len(name) : i + j - 1 <= Len(url) /\ url[i + j - 1] = name[j]

\* C17: every intercepted request receives exactly one decision; it is
\* blocked if and only if its resource type is in the type denylist or its
\* url contains a name of the name denylist, and allowed otherwise.  An
\* image is blocked, a url containing googletagmanager is blocked, a
\* document from an unlisted host is allowed.
C17_FilterDecision ==
    ret.fn = "route" =>
        LET request == call.request
            listed == \/ request.resource_type \in BLOCK_RESOURCE_TYPES
                      \/ \E name \in BLOCK_RESOURCE_NAMES : Occurs(name, request.url)
        IN  /\ Len(ret.decisions) = 1
            /\ ret.decisions[1] = (IF listed THEN "abort" ELSE "continue")
            /\ request.resource_type = "image" => ret.decisions = <<"abort">>
            /\ Occurs(<<"google", "tagmanager">>, request.url) =>
                  ret.decisions = <<"abort">>
            /\ (request.resource_type = "document" /\ request.url = <<"drom.ru", "auto">>) =>
                  ret.decisions = <<"continue">>

\* C17 witness: a script whose url contains googletagmanager was blocked.
C17_Witness ==
    /\ ret.fn = "route"
    /\ call.request.resource_type = "script"
    /\ call.request.url = <<"google", "tagmanager">>
    /\ ret.decisions = <<"abort">>

\* C17, the allowed case: a document from an unlisted host went through.
C17_WitnessAllowed ==
    /\ ret.fn = "route"
    /\ call.request.resource_type = "document"
    /\ call.request.url = <<"drom.ru", "auto">>
    /\ ret.decisions = <<"continue">>

----------------------------------------------------------------------------
(* Properties of the date normalizer *)

\* the text holds the token for today or the token for time ago
Relative(text) == \E i \in 1..Len(text) : text[i] \in {"segodnya", "nazad"}

\* the calendar has a day number day in that month of that year
RealDay(year, month, day) ==
    /\ day >= 1
    /\ day <= 31
    /\ month \in {4, 6, 9, 11} => day <= 30
    /\ month = 2 => day <= 29
    /\ (month = 2 /\ (year % 4 # 0 \/ (year % 100 = 0 /\ year % 400 # 0))) => day <= 28

\* the year the claim gives a day and month seen on the reference date
ClaimedYear(today, month) == IF today[2] >= month THEN today[1] ELSE today[1] - 1

\* the text is a day number and a month name that name a calendar day
NamesDay(text, today) ==
    /\ Len(text) >= 2
    /\ text[1] \in DOMAIN IntTokens
    /\ text[2] \in DOMAIN month_number
    /\ RealDay(ClaimedYear(today, month_number[text[2]]), month_number[text[2]],
               IntTokens[text[1]])

\* C18: a text with the token for today or for time ago gives the reference
\* date; otherwise a text "<day> <month name>" gives the date of that day
\* and month in the reference year when the reference month is not before
\* the month, and in the year before otherwise.  On 2024-06-01, "5 marta"
\* gives 2024-03-05, "20 dekabrya" gives 2023-12-20, "segodnya" 2024-06-01.
C18_DateNormalized ==
    ret.fn = "date" =>
        LET text == call.text
            today == call.today
        IN  /\ Relative(text) => ret.out = Returned(IsoFormat(today))
            /\ (~Relative(text) /\ NamesDay(text, today)) =>
                  ret.out = Returned(IsoFormat(
                      <<ClaimedYear(today, month_number[text[2]]),
                        month_number[text[2]], IntTokens[text[1]]>>))
            /\ today = <<2024, 6, 1>> =>
                  /\ text = <<"5", "marta">> =>
                        ret.out.value = <<"2", "0", "2", "4", "-", "0", "3", "-", "0", "5">>
                  /\ text = <<"20", "dekabrya">> =>
                        ret.out.value = <<"2", "0", "2", "3", "-", "1", "2", "-", "2", "0">>
                  /\ text = <<"segodnya">> =>
                        ret.out.value = <<"2", "0", "2", "4", "-", "0", "6", "-", "0", "1">>

\* C18 witness: on 2024-06-01 a day of December was dated to the year before.
C18_Witness ==
    /\ ret.fn = "date"
    /\ call.today = <<2024, 6, 1>>
    /\ call.text = <<"20", "dekabrya">>
    /\ ret.out = Returned(<<"2", "0", "2", "3", "-", "1", "2", "-", "2", "0">>)

\* the text lacks a day token int() accepts or a month token of the table
BadTokens(text) ==
    \/ Len(text) < 1
    \/ text[1] \notin DOMAIN IntTokens
    \/ Len(text) < 2
    \/ text[2] \notin DOMAIN month_number

----------------------------------------------------------------------------
(* Properties of the field extractor *)

\* the positions at which the scan matched the pattern of param
MatchesOf(param) == {k \in 1..Len(ret.matches) : ret.matches[k].param = param}

\* C20: the extractor returns a map with exactly the six attributes
\* capacity, power, fuel, transmission, drive and mileage; an attribute is
\* absent unless its pattern matched in the left-to-right scan, and one
\* matched several times holds the value of its last match; the empty
\* description gives all six absent and no error.
C20_ExtractedFields ==
    ret.fn = "extract" =>
        /\ ret.out.ok =>
              /\ DOMAIN ret.out.value =
                    {"capacity", "power", "fuel", "transmission", "drive", "mileage"}
              /\ \A param \in DOMAIN ret.out.value :
                    IF MatchesOf(param) = {} THEN ~ret.out.value[param].some
                    ELSE LET last == CHOOSE k \in MatchesOf(param) :
                                         \A q \in MatchesOf(param) : q <= k
                         IN  /\ ret.out.value[param].some
                             /\ ret.out.value[param].v = Converted(ret.matches[last])
        /\ call.description = <<>> =>
              /\ ret.out.ok
              /\ \A param \in DOMAIN ret.out.value : ~ret.out.value[param].some

\* C20 witness: a description naming two fuels kept the second.
C20_Witness ==
    /\ ret.fn = "extract"
    /\ call.description = <<"benzin", "dizel", "4WD">>
    /\ ret.out.ok
    /\ ret.out.value["fuel"] = Some("dizel")
    /\ ~ret.out.value["mileage"].some

\* C20, the empty description: all six attributes absent.
C20_WitnessEmpty ==
    /\ ret.fn = "extract"
    /\ call.description = <<>>
    /\ ret.out.ok
    /\ \A param \in DOMAIN ret.out.value : ~ret.out.value[param].some

----------------------------------------------------------------------------
(* Properties of scrape *)

\* C21: when the browser or its context cannot be created the run aborts
\* with that error, and no group slot and no global slot has been written
\* or overwritten: the files are as the run found them.
C21_LaunchFailureWritesNothing ==
    (pc = "aborted" /\ abort_cause = "launch") =>
        /\ writes = <<>>
        /\ global_slot = Dumped(<<OldListing>>)
        /\ \A k \in BRAND_MODELS : model_slots[k] = NoFile
        /\ car_items = <<>>

\* C21 witness: a run aborted by the launch failure.
C21_Witness ==
    /\ pc = "aborted"
    /\ abort_cause = "launch"
    /\ failures = 1
    /\ models_items = <<>>

----------------------------------------------------------------------------
(* Properties of one sub-crawl (parse_model_page) *)

\* C22: in each sub-crawl the enumerator has been called exactly once, with
\* the url of the sub-crawl, and there are exactly pages_number page tasks,
\* the task at position p for page p, pages 1..pages_number in ascending
\* order; with pages_number 0 there is no task and the result is empty.
C22_OneTaskPerPage ==
    pc \in {"chunks", "await"} =>
        /\ Len(enum_calls) = si + 1
        /\ enum_calls[si + 1] = plan[si + 1]
        /\ Len(tasks) = pages_number
        /\ \A p \in 1..Len(tasks) : tasks[p].page = p
        /\ pages_number = 0 => tasks = <<>> /\ model_car_items_slim = <<>>

\* C22 witness: a sub-crawl of three pages has its three tasks, the last
\* one awaited in the second batch.
C22_Witness ==
    /\ pc = "await"
    /\ pages_number = 3
    /\ Len(tasks) = 3
    /\ tasks[3].page = 3
    /\ tasks[3].st = "started"

\* C22, no pages: the enumerator returned 0 and the sub-crawl ends empty.
C22_WitnessNoPages ==
    /\ pc = "chunks"
    /\ Len(enum_calls) = 1
    /\ pages_number = 0
    /\ tasks = <<>>
    /\ model_car_items_slim = <<>>

----------------------------------------------------------------------------
(* Properties of the spider *)

\* the requests parse yielded for model i
RequestsOf(i) == {k \in 1..Len(ret.requests) : ret.requests[k].model_url = i}

\* C23: parse requests a group in exactly one way: a group of more than
\* 2000 ads only through its year-sliced urls, a group of at most 2000 ads
\* only through its unsplit url, and none both sliced and unsplit.
C23_RequestedOneWay ==
    ret.fn = "parse" =>
        \A i \in 1..Len(call.response) :
            /\ RequestsOf(i) # {}
            /\ call.response[i].ads_number > 2000 =>
                  \A k \in RequestsOf(i) : ret.requests[k].sliced
            /\ call.response[i].ads_number <= 2000 =>
                  \A k \in RequestsOf(i) : ~ret.requests[k].sliced
            /\ ~\E k, q \in RequestsOf(i) :
                  ret.requests[k].sliced /\ ~ret.requests[q].sliced

\* the years of the interval <<lo, hi>>
YearsOf(interval) == interval[1]..interval[2]

\* C28: for min_year <= max_year the intervals get_year_intervals returns
\* have lo <= hi and partition exactly the years min_year..max_year: they
\* are pairwise disjoint, every year of the range lies in exactly one of
\* them, and none holds a year outside the range.
C28_IntervalsPartition ==
    ret.fn = "years" =>
        LET iv == ret.year_intervals
        IN  /\ \A k \in 1..Len(iv) : iv[k][1] <= iv[k][2]
            /\ \A k, q \in 1..Len(iv) : k # q => YearsOf(iv[k]) \cap YearsOf(iv[q]) = {}
            /\ \A y \in call.min_year..call.max_year :
                  Cardinality({k \in 1..Len(iv) : y \in YearsOf(iv[k])}) = 1
            /\ \A k \in 1..Len(iv) : YearsOf(iv[k]) \subseteq call.min_year..call.max_year

\* a listing of the sub-crawl result stands before another one
Before(a, b) == a[3] < b[3] \/ (a[3] = b[3] /\ a[4] < b[4])

\* C24: after every batch the result holds the lists of the page tasks in
\* page order, each page's rows together, whatever the order in which the
\* tasks of a batch returned: the list depends on the rows each page
\* yielded alone, so it is the same under every interleaving.
C24_ResultInSubmissionOrder ==
    pc \in {"chunks", "await"} =>
        /\ \A k, q \in 1..Len(model_car_items_slim) :
              k < q => Before(model_car_items_slim[k], model_car_items_slim[q])
        /\ \A p \in 1..Min(chunk_pos, Len(tasks)) :
              \A r \in 1..tasks[p].got :
                  \E k \in 1..Len(model_car_items_slim) :
                      model_car_items_slim[k] = <<gi, plan[si + 1], p, r>>
        /\ Len(model_car_items_slim) =
              Len(PagesInOrder(Min(chunk_pos, Len(tasks))))

\* C24 witness: in a gathered batch the second page returned before the
\* first, and the rows of the first page stand first in the result.
C24_Witness ==
    /\ pc = "chunks"
    /\ chunk_pos = chunks_size
    /\ Len(tasks) >= 2
    /\ tasks[2].seq < tasks[1].seq
    /\ tasks[1].got >= 1
    /\ tasks[2].got >= 1
    /\ model_car_items_slim[1][3] = 1

----------------------------------------------------------------------------
(* Properties of the page sessions *)

\* one of the three page operations is under way
PageOperationRunning == pc \in {"discover", "enum_goto", "enum_count", "await"}

\* C25: every page opened by _get_pages_number, parse_model_page_slim or
\* parse_group_by_models_page is closed when that operation returns or
\* raises: outside these operations, and so once the crawl has finished,
\* normally or with an error, no page is open.
C25_PagesClosed == ~PageOperationRunning => open_pages = 0

----------------------------------------------------------------------------
(* Properties of the run as a whole *)

\* the listings of a list that stem from the groups 1..k of this run
FromThisRun(items, k) == \A n \in 1..Len(items) : items[n][1] \in 1..k

\* C26: a run never reads a checkpoint: its cumulative list holds listings
\* of this run alone, and after group k the global slot holds listings of
\* the groups 1..k of this run only, nothing an earlier run had left there.
C26_NoCheckpointRead ==
    /\ FromThisRun(car_items, gi)
    /\ (save_checkpoints /\ pc = "loop" /\ gi >= 1) =>
          /\ global_slot.state = "dumped"
          /\ FromThisRun(global_slot.data, gi)
          /\ \A n \in 1..Len(global_slot.data) : global_slot.data[n] # OldListing

\* C26 witness: the slot an earlier run had filled holds the listings of
\* the first group of this run.
C26_Witness ==
    /\ save_checkpoints
    /\ pc = "loop"
    /\ gi = 1
    /\ global_slot.data # <<>>
    /\ global_slot.data[1][1] = 1

\* C27: checkpointing is transparent to the result: with save_checkpoints
\* on or off the cumulative list is the concatenation of the lists the
\* groups returned, fixed by the discovered groups and the fetch outcomes
\* alone; and with save_checkpoints off no slot is written.
C27_CheckpointingTransparent ==
    /\ pc # "crashed" => car_items = Flatten(done_groups)
    /\ pc = "done" => csv_file = Dumped(Flatten(done_groups))
    /\ ~save_checkpoints =>
          /\ writes = <<>>
          /\ global_slot = Dumped(<<OldListing>>)
          /\ \A k \in BRAND_MODELS : model_slots[k] = NoFile

\* C27 witness: a run without checkpoints returned the listings of two
\* groups and wrote no slot.
C27_Witness ==
    /\ ~save_checkpoints
    /\ pc = "done"
    /\ Len(done_groups) = 2
    /\ car_items # <<>>
    /\ writes = <<>>

\* C27, checkpoints on: a run of two groups returned its listings after
\* four dumps.
C27_WitnessSaving ==
    /\ save_checkpoints
    /\ pc = "done"
    /\ Len(done_groups) = 2
    /\ car_items # <<>>
    /\ Len(writes) = 4

----------------------------------------------------------------------------
(* The normalized date against the reference date *)

\* the date a is the date b or an earlier one
NotLater(a, b) ==
    \/ a[1] < b[1]
    \/ (a[1] = b[1] /\ a[2] < b[2])
    \/ (a[1] = b[1] /\ a[2] = b[2] /\ a[3] <= b[3])

\* the dates of the reference year and of the year before
NearDates(today) == {today[1] - 1, today[1]} \X (1..12) \X (1..31)

====
